---- MODULE Spec2Model ----
(***************************************************************************)
(* A model of the bank-statement extractor: the per-page extraction        *)
(* fallback chain and the front end (extractor.py, extract.py, api.py),    *)
(* the chunker (utils.py), and the response salvager, numeric              *)
(* normalisation, per-chunk parsing and deduplication (ai_parser.py).      *)
(*                                                                         *)
(* Text is a sequence of one-character strings.  Each part of the program  *)
(* has its own specification (SpecChain, SpecChunk, SpecJson, SpecNum,     *)
(* SpecParse); the variables of the other parts stay at their idle value.  *)
(***************************************************************************)
EXTENDS Integers, Sequences, FiniteSets, TLC

VARIABLES
    \* ---- extractor.py / extract.py: fallback chain and front end
    total,          \* len(doc): number of pages of the document
    page_num,       \* the page being processed (1-based)
    pc,             \* position in _extract_pdf / main
    text,           \* the local `text` of the current page
    tried,          \* the strategies invoked on the current page, with their yields
    all_pages,      \* the list all_pages
    raw_text,       \* the string returned by extract()
    outcome,        \* what the front end reported
    called,         \* TRUE once parser.parse (the collaborator) was invoked
    \* ---- utils.py: chunk_text
    ctext,          \* the argument text
    size,           \* the local size
    start,          \* the local start
    chunks,         \* the local chunks (stripped, before the final filter)
    cpc,            \* "loop" while in the while loop, "done" after return
    cresult,        \* the returned list
    iters,          \* number of loop iterations executed so far
    \* ---- ai_parser.py: _extract_json
    raw,            \* the argument raw
    origin,         \* how raw was made: a truncated array, or free text
    jpc,            \* "call" before _extract_json runs, "returned" after
    result,         \* the value _extract_json returned
    via,            \* the strategy that returned it (0: the final `return []`)
    \* ---- ai_parser.py: _clean_num
    val,            \* the argument val: None or a string
    npc,            \* "call" before _clean_num runs, "returned" after
    nresult,        \* the float _clean_num returned
    \* ---- ai_parser.py: AIParser._parse_chunk / AIParser.parse
    total_chunks,   \* len(chunks)
    chunk_i,        \* the loop index i of the chunk to process next
    all_rows,       \* the list all_rows
    total_tokens,   \* self.total_tokens
    chunk_log,      \* per processed chunk: what the collaborator did, what _parse_chunk returned
    unique,         \* the list parse returns
    ppc,            \* "chunks" in the chunk loop, "dedup" before the dedup loop, "done"
    \* ---- extract.py: main, steps 2 to 4 (api.py: extract, the same steps)
    transactions,   \* the list parser.parse returned
    df,             \* reporter.df, one record per row
    summary,        \* result["summary"]
    spc,            \* "parsed" after parser.parse, then "printed" or "no_transactions"
    \* ---- extractor.py: _rows_from_words / _extract_page_pymupdf
    word_list,      \* page.get_text("words"), in the order the page supplies them
    page_rows,      \* the local rows
    col_map,        \* the local col_map, as (column, centre) pairs in insertion order
    header_idx,     \* the local header_idx
    assigned,       \* per processed row, per token: the column _nearest_col chose
    page_lines,     \* the local lines, each as its five cells
    xpc             \* "call" before the function runs, "returned" after

chainVars == <<total, page_num, pc, text, tried, all_pages, raw_text, outcome, called>>
chunkVars == <<ctext, size, start, chunks, cpc, cresult, iters>>
jsonVars == <<raw, origin, jpc, result, via>>
numVars == <<val, npc, nresult>>
parseVars == <<total_chunks, chunk_i, all_rows, total_tokens, chunk_log, unique, ppc>>
summaryVars == <<transactions, df, summary, spc>>
pageVars == <<word_list, page_rows, col_map, header_idx, assigned, page_lines, xpc>>
vars == <<chainVars, chunkVars, jsonVars, numVars, parseVars, summaryVars, pageVars>>

(***************************************************************************)
(* Bounds of the model.                                                    *)
(***************************************************************************)
MaxPages == 4
MaxTextLen == 5
MaxChunkSize == 3
MaxIters == 8
MaxRawLen == 5
MaxObjects == 3
MaxNumLen == 4
MaxChunks == 2
MaxRows == 3
MaxTxRows == 3
MaxWords == 3

(***************************************************************************)
(* Text helpers: Python's str.strip(), len(), str.join().                  *)
(***************************************************************************)
IsWs(c) == c \in {" ", "\n", "\t"}

SetMin(S) == CHOOSE x \in S : \A y \in S : x <= y
SetMax(S) == CHOOSE x \in S : \A y \in S : x >= y

\* s.strip(): drop leading and trailing whitespace
Strip(s) ==
    LET keep == {i \in 1..Len(s) : ~IsWs(s[i])}
    IN  IF keep = {} THEN <<>> ELSE SubSeq(s, SetMin(keep), SetMax(keep))

Rep(c, n) == [i \in 1..n |-> c]

RECURSIVE JoinLines(_)
\* "\n".join(list)
JoinLines(list) ==
    IF list = <<>> THEN <<>>
    ELSE IF Len(list) = 1 THEN list[1]
    ELSE list[1] \o <<"\n">> \o JoinLines(Tail(list))

(***************************************************************************)
(* extractor.py: the per-page fallback chain of _extract_pdf.              *)
(***************************************************************************)
\* the minimum-content threshold of _extract_pdf and of the front ends
MinContent == 50

StrategyOrder == <<"positional", "camelot", "ocr">>

\* the yields a strategy's collaborator can produce: nothing, text whose
\* stripped length is one below the threshold, text that meets the threshold
YieldEmpty == <<>>
YieldShort == <<" ">> \o Rep("x", MinContent - 1) \o <<"\n">>
YieldLong  == Rep("x", MinContent)
Yields == {YieldEmpty, YieldShort, YieldLong}

\* f"[OCR ERROR: {e}]" of _ocr_page, for an exception whose message is "e"
OcrErrorMarker == <<"[","O","C","R"," ","E","R","R","O","R",":"," ","e","]">>

DigitChar(n) == <<"0","1","2","3","4","5","6","7","8","9">>[n + 1]

\* f"\n--- PAGE {page_num} ---\n"
PageMarker(n) ==
    <<"\n","-","-","-"," ","P","A","G","E"," ">> \o <<DigitChar(n)>>
        \o <<" ","-","-","-","\n">>

\* len(text.strip()) < 50
BelowThreshold(t) == Len(Strip(t)) < MinContent

\* _try_camelot: the collaborator's rows, or "" when it throws
TryCamelot(y, throws) == IF throws THEN <<>> ELSE y

\* _ocr_page: the collaborator's text, or the error marker when it throws
OcrPage(y, throws) == IF throws THEN OcrErrorMarker ELSE y

\* a chain that tests the raw length instead of the stripped length
AfterPositionalNoStrip(t) == IF Len(t) < MinContent THEN "camelot" ELSE "commit"

\* the stage that follows a strategy whose yield is t: the two `if` tests of
\* _extract_pdf are evaluated in order on the same local `text`
AfterPositional(t) == IF BelowThreshold(t) THEN "camelot" ELSE "commit"
AfterCamelot(t) == IF BelowThreshold(t) THEN "ocr" ELSE "commit"

ChainIdle ==
    /\ total = 0 /\ page_num = 0 /\ pc = "idle" /\ text = <<>> /\ tried = <<>>
    /\ all_pages = <<>> /\ raw_text = <<>> /\ outcome = "none" /\ called = FALSE

ChunkIdle ==
    /\ ctext = <<>> /\ size = 0 /\ start = 0 /\ chunks = <<>> /\ cpc = "idle"
    /\ cresult = <<>> /\ iters = 0

JsonIdle ==
    /\ raw = <<>> /\ origin = [kind |-> "idle", n |-> 0, sep |-> <<>>, cut |-> 0]
    /\ jpc = "idle" /\ result = [tag |-> "null", lit |-> <<>>, keys |-> <<>>, items |-> <<>>]
    /\ via = 0

NumIdle ==
    /\ val = [none |-> TRUE, s |-> <<>>] /\ npc = "idle"
    /\ nresult = [kind |-> "num", neg |-> FALSE, mag |-> 0]

ParseIdle ==
    /\ total_chunks = 0 /\ chunk_i = 0 /\ all_rows = <<>> /\ total_tokens = 0
    /\ chunk_log = <<>> /\ unique = <<>> /\ ppc = "idle"

SummaryIdle ==
    /\ transactions = <<>> /\ df = <<>> /\ spc = "idle"
    /\ summary = [total_rows |-> 0, debit_rows |-> 0, credit_rows |-> 0,
                  total_debits |-> [kind |-> "num", neg |-> FALSE, mag |-> 0],
                  total_credits |-> [kind |-> "num", neg |-> FALSE, mag |-> 0],
                  net_cash_flow |-> [kind |-> "num", neg |-> FALSE, mag |-> 0],
                  closing_balance |-> [kind |-> "num", neg |-> FALSE, mag |-> 0],
                  direction |-> "none"]

PageIdle ==
    /\ word_list = <<>> /\ page_rows = <<>> /\ col_map = <<>> /\ header_idx = 0
    /\ assigned = <<>> /\ page_lines = <<>> /\ xpc = "idle"

\* fitz.open; total = len(doc); the for loop is entered at page 1
InitChain ==
    /\ total \in 0..MaxPages
    /\ page_num = 1
    /\ pc = IF total = 0 THEN "join" ELSE "positional"
    /\ text = <<>>
    /\ tried = <<>>
    /\ all_pages = <<>>
    /\ raw_text = <<>>
    /\ outcome = "none"
    /\ called = FALSE
    /\ ChunkIdle
    /\ JsonIdle
    /\ NumIdle
    /\ ParseIdle
    /\ SummaryIdle
    /\ PageIdle

\* Strategy 1: text = _extract_page_pymupdf(page); no try/except around it,
\* so a throw of page.get_text leaves _extract_pdf and reaches the front
\* end's `except Exception`
Positional ==
    /\ pc = "positional"
    /\ \E throws \in BOOLEAN, y \in Yields :
        IF throws
        THEN /\ tried' = Append(tried, [s |-> "positional", y |-> <<>>, threw |-> TRUE])
             /\ pc' = "done"
             /\ outcome' = "error"
             /\ UNCHANGED text
        ELSE /\ tried' = Append(tried, [s |-> "positional", y |-> y, threw |-> FALSE])
             /\ text' = y
             /\ pc' = AfterPositional(y)
             /\ UNCHANGED outcome
    /\ UNCHANGED <<total, page_num, all_pages, raw_text, called>>
    /\ UNCHANGED <<chunkVars, jsonVars, numVars, parseVars, summaryVars, pageVars>>

\* Strategy 2: text = _try_camelot(filepath, page_num)
Camelot ==
    /\ pc = "camelot"
    /\ \E throws \in BOOLEAN, y \in Yields :
        LET t == TryCamelot(y, throws) IN
        /\ tried' = Append(tried, [s |-> "camelot", y |-> t, threw |-> throws])
        /\ text' = t
        /\ pc' = AfterCamelot(t)
    /\ UNCHANGED <<total, page_num, all_pages, raw_text, outcome, called>>
    /\ UNCHANGED <<chunkVars, jsonVars, numVars, parseVars, summaryVars, pageVars>>

\* Strategy 3: text = _ocr_page(page)
OCR ==
    /\ pc = "ocr"
    /\ \E throws \in BOOLEAN, y \in Yields :
        LET t == OcrPage(y, throws) IN
        /\ tried' = Append(tried, [s |-> "ocr", y |-> t, threw |-> throws])
        /\ text' = t
        /\ pc' = "commit"
    /\ UNCHANGED <<total, page_num, all_pages, raw_text, outcome, called>>
    /\ UNCHANGED <<chunkVars, jsonVars, numVars, parseVars, summaryVars, pageVars>>

\* all_pages.append(f"\n--- PAGE {page_num} ---\n{text}"); next page
CommitPage ==
    /\ pc = "commit"
    /\ all_pages' = Append(all_pages, PageMarker(page_num) \o text)
    /\ IF page_num < total
       THEN /\ page_num' = page_num + 1
            /\ pc' = "positional"
            /\ tried' = <<>>
            /\ text' = <<>>
       ELSE /\ pc' = "join"
            /\ UNCHANGED <<page_num, tried, text>>
    /\ UNCHANGED <<total, raw_text, outcome, called>>
    /\ UNCHANGED <<chunkVars, jsonVars, numVars, parseVars, summaryVars, pageVars>>

\* return "\n".join(all_pages)
JoinPages ==
    /\ pc = "join"
    /\ raw_text' = JoinLines(all_pages)
    /\ pc' = "frontend"
    /\ UNCHANGED <<total, page_num, text, tried, all_pages, outcome, called>>
    /\ UNCHANGED <<chunkVars, jsonVars, numVars, parseVars, summaryVars, pageVars>>

\* not raw_text or len(raw_text.strip()) < 50
NoContent(t) == t = <<>> \/ Len(Strip(t)) < MinContent

\* main / extract after extractor.extract(): the no-content test, then
\* parser.parse(raw_text), which returns ntx records
FrontEnd ==
    /\ pc = "frontend"
    /\ \E ntx \in 0..1 :
        IF NoContent(raw_text)
        THEN /\ outcome' = "no_content"
             /\ UNCHANGED called
        ELSE /\ called' = TRUE
             /\ outcome' = IF ntx = 0 THEN "no_transactions" ELSE "success"
    /\ pc' = "done"
    /\ UNCHANGED <<total, page_num, text, tried, all_pages, raw_text>>
    /\ UNCHANGED <<chunkVars, jsonVars, numVars, parseVars, summaryVars, pageVars>>

NextChain == Positional \/ Camelot \/ OCR \/ CommitPage \/ JoinPages \/ FrontEnd

SpecChain == InitChain /\ [][NextChain]_vars

\* the text page p contributed after its page marker
PageYield(p) == SubSeq(all_pages[p], Len(PageMarker(p)) + 1, Len(all_pages[p]))

StrippedLen(t) == Len(Strip(t))

(***************************************************************************)
(* C1: on every page the strategies are invoked in the order positional,   *)
(* camelot, ocr; a strategy is invoked only after every earlier one        *)
(* yielded fewer than 50 stripped characters; the text committed for the   *)
(* page is the yield of the last strategy invoked, which is the first one  *)
(* that reached 50 stripped characters, or ocr when none did; each page    *)
(* starts the chain afresh, whatever the earlier pages committed.          *)
(***************************************************************************)
C1_ChainState ==
    /\ Len(tried) <= 3
    /\ \A i \in 1..Len(tried) : tried[i].s = StrategyOrder[i]
    /\ \A i \in 1..(Len(tried) - 1) :
            StrippedLen(tried[i].y) < 50
    /\ pc = "positional" => tried = <<>>
    /\ pc = "camelot" => Len(tried) = 1 /\ StrippedLen(tried[1].y) < 50
    /\ pc = "ocr" => Len(tried) = 2 /\ StrippedLen(tried[2].y) < 50
    /\ pc = "commit" =>
            /\ tried # <<>>
            /\ text = tried[Len(tried)].y
            /\ StrippedLen(text) >= 50 \/ Len(tried) = 3

C1_CommitStep ==
    pc = "commit" =>
        /\ all_pages' = Append(all_pages, PageMarker(page_num) \o tried[Len(tried)].y)
        /\ \A p \in 1..Len(all_pages) : all_pages'[p] = all_pages[p]
        /\ pc' = "positional" => tried' = <<>>

C1_FallbackOrder == [](C1_ChainState) /\ [][C1_CommitStep]_vars

\* page 1 was committed from the positional strategy and page 2 is being
\* committed from ocr after positional and camelot fell short
C1_Witness ==
    /\ page_num = 2 /\ pc = "commit" /\ Len(tried) = 3
    /\ all_pages = <<PageMarker(1) \o YieldLong>>
    /\ text = YieldLong

(***************************************************************************)
(* utils.py: chunk_text.  Offsets are 0-based as in the source.            *)
(***************************************************************************)
\* chunk_size: int = 6000
DefaultChunkSize == 6000

TextChars == {"a", "b", " ", "\n"}
Texts == UNION {[1..n -> TextChars] : n \in 0..MaxTextLen}

\* the (chunk_size, max_chars) pairs: chunk_text(text, chunk_size=c), and
\* AIParser.parse's chunk_text(text, max_chars=m); max_chars=None is <<>>
SizeArgs ==
    {<<c, <<>>>> : c \in 0..MaxChunkSize}
        \cup {<<DefaultChunkSize, <<m>>>> : m \in 0..MaxChunkSize}

\* size = max_chars or chunk_size
SizeOf(chunk_size, max_chars) ==
    IF max_chars = <<>> \/ max_chars[1] = 0 THEN chunk_size ELSE max_chars[1]

\* text.rfind('\n', lo, hi), for 0 <= lo and hi <= len(text)
RFindNewline(t, lo, hi) ==
    LET at == {i \in lo..(hi - 1) : t[i + 1] = "\n"}
    IN  IF at = {} THEN -1 ELSE SetMax(at)

\* text[lo:hi], for 0 <= lo
Slice(t, lo, hi) == SubSeq(t, lo + 1, IF hi < Len(t) THEN hi ELSE Len(t))

\* the value of `end` when the chunk is cut: lines 7-11
ChunkEnd(t, st, sz) ==
    LET end == st + sz
    IN  IF end < Len(t)
        THEN LET newline == RFindNewline(t, st, end)
             IN  IF newline > st THEN newline ELSE end
        ELSE end

\* a chunker that steps over the character at the cut
NextStartSkip(end) == end + 1

\* start = end
NextStart(end) == end

\* [c for c in chunks if c]
NonEmpty(list) == SelectSeq(list, LAMBDA c : c # <<>>)

InitChunk ==
    /\ ctext \in Texts
    /\ \E a \in SizeArgs : size = SizeOf(a[1], a[2])
    /\ start = 0
    /\ chunks = <<>>
    /\ cpc = "loop"
    /\ cresult = <<>>
    /\ iters = 0
    /\ ChainIdle
    /\ JsonIdle
    /\ NumIdle
    /\ ParseIdle
    /\ SummaryIdle
    /\ PageIdle

\* one iteration of `while start < len(text)`
ChunkStep ==
    /\ cpc = "loop"
    /\ start < Len(ctext)
    /\ iters < MaxIters
    /\ LET end == ChunkEnd(ctext, start, size) IN
        /\ chunks' = Append(chunks, Strip(Slice(ctext, start, end)))
        /\ start' = NextStart(end)
    /\ iters' = iters + 1
    /\ UNCHANGED <<ctext, size, cpc, cresult>>
    /\ UNCHANGED <<chainVars, jsonVars, numVars, parseVars, summaryVars, pageVars>>

\* the loop test fails: return [c for c in chunks if c]
ChunkReturn ==
    /\ cpc = "loop"
    /\ ~(start < Len(ctext))
    /\ cresult' = NonEmpty(chunks)
    /\ cpc' = "done"
    /\ UNCHANGED <<ctext, size, start, chunks, iters>>
    /\ UNCHANGED <<chainVars, jsonVars, numVars, parseVars, summaryVars, pageVars>>

NextChunk == ChunkStep \/ ChunkReturn

SpecChunk == InitChunk /\ [][NextChunk]_vars

NonWs(s) == SelectSeq(s, LAMBDA c : ~IsWs(c))

(***************************************************************************)
(* C4: the chunks chunk_text returns, rejoined with the newline boundary   *)
(* character, hold exactly the non-whitespace characters of the text, each *)
(* once and in the original order; no returned chunk is empty.             *)
(***************************************************************************)
C4_ChunksReconstruct ==
    cpc = "done" =>
        /\ NonWs(JoinLines(cresult)) = NonWs(ctext)
        /\ \A i \in 1..Len(cresult) : cresult[i] # <<>>

\* a text cut back to its newline: two chunks, the newline trimmed away
C4_Witness ==
    /\ cpc = "done"
    /\ ctext = <<"a", "b", "\n", "b", "a">>
    /\ size = 3
    /\ cresult = << <<"a", "b">>, <<"b", "a">> >>

(***************************************************************************)
(* C5: chunk_text terminates: every loop iteration strictly increases      *)
(* start, so the loop runs at most len(text) times.                        *)
(***************************************************************************)
C5_StartIncreases == iters' = iters + 1 => start' > start

C5_Terminates == [](iters <= Len(ctext)) /\ [][C5_StartIncreases]_vars

(***************************************************************************)
(* ai_parser.py: _extract_json.  The response is a sequence of characters, *)
(* each standing for one JSON token: the structural characters, the        *)
(* digits (adjacent digits form one number), "t" for the string literal    *)
(* "transactions", "k" for any other string literal, whitespace, and "F"   *)
(* for a markdown fence (three backticks, with or without json).  JSON     *)
(* values are records [tag, lit, keys, items].                             *)
(***************************************************************************)
NullVal == [tag |-> "null", lit |-> <<>>, keys |-> <<>>, items |-> <<>>]
NumVal(digits) == [tag |-> "num", lit |-> digits, keys |-> <<>>, items |-> <<>>]
StrVal(c) == [tag |-> "str", lit |-> <<c>>, keys |-> <<>>, items |-> <<>>]
ListVal(items) == [tag |-> "list", lit |-> <<>>, keys |-> <<>>, items |-> items]
DictVal(keys, items) == [tag |-> "dict", lit |-> <<>>, keys |-> keys, items |-> items]

IsDigit(c) == c \in {"1", "2", "3"}
IsStrLit(c) == c \in {"t", "k"}

ParseFail == [ok |-> FALSE, val |-> NullVal, next |-> 0]
ParseOk(v, n) == [ok |-> TRUE, val |-> v, next |-> n]

\* the first index >= i that holds no whitespace (Len(s) + 1 when none)
SkipWs(s, i) ==
    LET at == {j \in i..Len(s) : ~IsWs(s[j])}
    IN  IF at = {} THEN Len(s) + 1 ELSE SetMin(at)

\* the last index of the run of digits that starts at i
DigitRunEnd(s, i) ==
    LET stop == {j \in i..Len(s) : ~IsDigit(s[j])}
    IN  IF stop = {} THEN Len(s) ELSE SetMin(stop) - 1

\* d[k] = v on a dict under construction: a repeated key keeps its place
\* and takes the later value
DictSet(keys, items, k, v) ==
    LET at == {i \in 1..Len(keys) : keys[i] = k}
    IN  IF at = {}
        THEN [keys |-> Append(keys, k), items |-> Append(items, v)]
        ELSE [keys |-> keys, items |-> [items EXCEPT ![SetMin(at)] = v]]

RECURSIVE ParseValue(_, _)
RECURSIVE ParseItems(_, _, _)
RECURSIVE ParseMembers(_, _, _, _)

\* the elements of an array after "[" or ",": value, then "," or "]"
ParseItems(s, i, acc) ==
    LET r == ParseValue(s, i)
        j == SkipWs(s, r.next)
    IN  IF ~r.ok \/ j > Len(s) THEN ParseFail
        ELSE IF s[j] = "," THEN ParseItems(s, j + 1, Append(acc, r.val))
        ELSE IF s[j] = "]" THEN ParseOk(ListVal(Append(acc, r.val)), j + 1)
        ELSE ParseFail

\* the members of an object after "{" or ",": string ":" value, then "," or "}"
ParseMembers(s, i, keys, items) ==
    LET j == SkipWs(s, i)
        c == SkipWs(s, j + 1)
    IN  IF j > Len(s) \/ c > Len(s) THEN ParseFail
        ELSE IF ~IsStrLit(s[j]) \/ s[c] # ":" THEN ParseFail
        ELSE LET r == ParseValue(s, c + 1)
                 m == SkipWs(s, r.next)
                 d == DictSet(keys, items, s[j], r.val)
             IN  IF ~r.ok \/ m > Len(s) THEN ParseFail
                 ELSE IF s[m] = "," THEN ParseMembers(s, m + 1, d.keys, d.items)
                 ELSE IF s[m] = "}" THEN ParseOk(DictVal(d.keys, d.items), m + 1)
                 ELSE ParseFail

\* one JSON value starting at or after index i
ParseValue(s, i) ==
    LET j == SkipWs(s, i)
    IN  IF j > Len(s) THEN ParseFail
        ELSE IF IsDigit(s[j])
             THEN ParseOk(NumVal(SubSeq(s, j, DigitRunEnd(s, j))), DigitRunEnd(s, j) + 1)
        ELSE IF IsStrLit(s[j]) THEN ParseOk(StrVal(s[j]), j + 1)
        ELSE IF s[j] = "["
             THEN LET e == SkipWs(s, j + 1)
                  IN  IF e <= Len(s) /\ s[e] = "]" THEN ParseOk(ListVal(<<>>), e + 1)
                      ELSE ParseItems(s, j + 1, <<>>)
        ELSE IF s[j] = "{"
             THEN LET e == SkipWs(s, j + 1)
                  IN  IF e <= Len(s) /\ s[e] = "}" THEN ParseOk(DictVal(<<>>, <<>>), e + 1)
                      ELSE ParseMembers(s, j + 1, <<>>, <<>>)
        ELSE ParseFail

\* json.loads(s): one value and nothing but whitespace after it; ok = FALSE
\* is the exception the bare `except` swallows
JsonLoads(s) ==
    LET r == ParseValue(s, 1)
    IN  IF r.ok /\ SkipWs(s, r.next) > Len(s) THEN r ELSE ParseFail

NotFound == [found |-> FALSE, val |-> NullVal]
Found(v) == [found |-> TRUE, val |-> v]

\* obj["transactions"]
TransactionsOf(obj) ==
    obj.items[CHOOSE i \in 1..Len(obj.keys) : obj.keys[i] = "t"]

\* strategies 1 and 2: a list, or a dict that has the key "transactions"
Accept(r) ==
    IF ~r.ok THEN NotFound
    ELSE IF r.val.tag = "list" THEN Found(r.val)
    ELSE IF r.val.tag = "dict" /\ \E i \in 1..Len(r.val.keys) : r.val.keys[i] = "t"
         THEN Found(TransactionsOf(r.val))
    ELSE NotFound

\* re.sub(<fence>, "", raw, flags=re.IGNORECASE).strip()
Cleaned(s) == Strip(SelectSeq(s, LAMBDA c : c # "F"))

\* strategy 3: re.search(r"(\[.*\])", cleaned, re.DOTALL): from the first
\* "[" to the last "]"
FirstBlock(s) ==
    LET opens == {i \in 1..Len(s) : s[i] = "["}
        closes == {i \in 1..Len(s) : s[i] = "]"}
    IN  IF opens = {} \/ closes = {} THEN NotFound
        ELSE IF SetMin(opens) < SetMax(closes)
             THEN LET r == JsonLoads(SubSeq(s, SetMin(opens), SetMax(closes)))
                  IN  IF r.ok /\ r.val.tag = "list" THEN Found(r.val) ELSE NotFound
        ELSE NotFound

\* text.rfind("},") as a 1-based index, 0 when absent
RFindCloseComma(s) ==
    LET at == {i \in 1..(Len(s) - 1) : s[i] = "}" /\ s[i + 1] = ","}
    IN  IF at = {} THEN 0 ELSE SetMax(at)

\* text.rfind("{") as a 1-based index, 0 when absent
RFindOpen(s) ==
    LET at == {i \in 1..Len(s) : s[i] = "{"}
    IN  IF at = {} THEN 0 ELSE SetMax(at)

\* text[:-1]: the text without its last character; a string literal that
\* loses its closing quote is left as "?", which is no JSON token
DropLastChar(s) ==
    IF IsStrLit(s[Len(s)])
    THEN SubSeq(s, 1, Len(s) - 1) \o <<"?">>
    ELSE SubSeq(s, 1, Len(s) - 1)

\* the text strategy 4 hands to json.loads; text[:last] with last = -1 (no
\* "{" at all) drops the last character
RepairedText(s) ==
    IF RFindCloseComma(s) # 0
    THEN SubSeq(s, 1, RFindCloseComma(s)) \o <<"\n", "]">>
    ELSE IF RFindOpen(s) # 0
         THEN SubSeq(s, 1, RFindOpen(s) - 1) \o <<"\n", "]">>
         ELSE DropLastChar(s) \o <<"\n", "]">>

\* strategy 4: fix truncated JSON
Repair(s) ==
    IF s # <<>> /\ s[1] = "[" /\ s[Len(s)] # "]"
    THEN LET r == JsonLoads(RepairedText(s))
         IN  IF r.ok /\ r.val.tag = "list" THEN Found(r.val) ELSE NotFound
    ELSE NotFound

RECURSIVE FindObjects(_, _)
\* re.findall(r"\{[^{}]+\}", cleaned, re.DOTALL) from index i on
FindObjects(s, i) ==
    LET opens == {j \in i..Len(s) : s[j] = "{"}
    IN  IF opens = {} THEN <<>>
        ELSE LET p == SetMin(opens)
                 braces == {j \in (p + 1)..Len(s) : s[j] \in {"{", "}"}}
             IN  IF braces = {} THEN <<>>
                 ELSE LET q == SetMin(braces)
                      IN  IF s[q] = "}" /\ q > p + 1
                          THEN <<SubSeq(s, p, q)>> \o FindObjects(s, q + 1)
                          ELSE FindObjects(s, p + 1)

RECURSIVE LoadEach(_)
\* strategy 5: the objects that json.loads accepts
LoadEach(objs) ==
    IF objs = <<>> THEN <<>>
    ELSE LET r == JsonLoads(Head(objs))
         IN  (IF r.ok THEN <<r.val>> ELSE <<>>) \o LoadEach(Tail(objs))

\* _extract_json(raw): the value returned and the strategy that returned it
ExtractJson(r) ==
    LET s1 == Accept(JsonLoads(r))
        cleaned == Cleaned(r)
        s2 == Accept(JsonLoads(cleaned))
        s3 == FirstBlock(cleaned)
        s4 == Repair(cleaned)
        s5 == LoadEach(FindObjects(cleaned, 1))
    IN  IF s1.found THEN [val |-> s1.val, via |-> 1]
        ELSE IF s2.found THEN [val |-> s2.val, via |-> 2]
        ELSE IF s3.found THEN [val |-> s3.val, via |-> 3]
        ELSE IF s4.found THEN [val |-> s4.val, via |-> 4]
        ELSE IF s5 # <<>> THEN [val |-> ListVal(s5), via |-> 5]
        ELSE [val |-> ListVal(<<>>), via |-> 0]

\* free response text
RawChars == {"[", "]", "{", "}", ",", ":", "t", "1", "F"}
RawTexts == UNION {[1..n -> RawChars] : n \in 0..MaxRawLen}

\* a JSON array of n flat objects {"k": j}, and its truncations
Separators == {<<",">>, <<",", "\n">>}
FlatObject(j) == <<"{", "k", ":", DigitChar(j), "}">>
FlatObjectVal(j) == DictVal(<<"k">>, <<NumVal(<<DigitChar(j)>>)>>)

RECURSIVE ArrayBody(_, _, _)
ArrayBody(j, n, sep) ==
    IF j > n THEN <<>>
    ELSE IF j = n THEN FlatObject(j)
    ELSE FlatObject(j) \o sep \o ArrayBody(j + 1, n, sep)

ArrayText(n, sep) == <<"[">> \o ArrayBody(1, n, sep) \o <<"]">>

\* the 1-based index of the closing brace of object j in ArrayText(n, sep)
ObjectEnd(j, sep) == 1 + (j - 1) * (5 + Len(sep)) + 5

Origins ==
    {[kind |-> "free", n |-> 0, sep |-> <<>>, cut |-> 0]}
        \cup {o \in [kind : {"truncated"}, n : 0..MaxObjects, sep : Separators,
                     cut : 1..(2 + MaxObjects * 7)] :
                o.cut < Len(ArrayText(o.n, o.sep))}

InitJson ==
    /\ origin \in Origins
    /\ IF origin.kind = "free"
       THEN raw \in RawTexts
       ELSE raw = SubSeq(ArrayText(origin.n, origin.sep), 1, origin.cut)
    /\ jpc = "call"
    /\ result = NullVal
    /\ via = 0
    /\ ChainIdle
    /\ ChunkIdle
    /\ NumIdle
    /\ ParseIdle
    /\ SummaryIdle
    /\ PageIdle

\* rows = _extract_json(raw)
Salvage ==
    /\ jpc = "call"
    /\ result' = ExtractJson(raw).val
    /\ via' = ExtractJson(raw).via
    /\ jpc' = "returned"
    /\ UNCHANGED <<raw, origin>>
    /\ UNCHANGED <<chainVars, chunkVars, numVars, parseVars, summaryVars, pageVars>>

NextJson == Salvage

SpecJson == InitJson /\ [][NextJson]_vars

\* the objects of a truncated array whose closing brace is inside the cut
CompleteObjects(o) ==
    LET m == Cardinality({j \in 1..o.n : ObjectEnd(j, o.sep) <= o.cut})
    IN  [j \in 1..m |-> FlatObjectVal(j)]

(***************************************************************************)
(* C6: whatever the text, _extract_json returns a list.                    *)
(***************************************************************************)
C6_ReturnsList == jpc = "returned" => result.tag = "list"

(***************************************************************************)
(* C7: for an array of flat objects cut before its closing bracket,        *)
(* _extract_json returns exactly the objects that are complete in the cut  *)
(* text, in order, and does so through strategy 4 when there are any.      *)
(***************************************************************************)
C7_TruncationKeepsComplete ==
    (jpc = "returned" /\ origin.kind = "truncated") =>
        /\ result = ListVal(CompleteObjects(origin))
        /\ CompleteObjects(origin) # <<>> => via = 4

(***************************************************************************)
(* ai_parser.py: _clean_num.  The value is None or a string over digits,   *)
(* sign, parentheses, comma, space, the letters of the placeholders and of *)
(* NGN, and "$" standing for the naira sign.  A float is a record          *)
(* [kind, neg, mag]: kind "num" with sign and magnitude, or kind "nan".    *)
(***************************************************************************)
Float(neg, mag) == [kind |-> "num", neg |-> neg, mag |-> mag]
NaN(neg) == [kind |-> "nan", neg |-> neg, mag |-> 0]
Zero == Float(FALSE, 0)

\* -x
Negate(x) == [x EXCEPT !.neg = ~x.neg]

\* x == 0.0 in Python (true of -0.0, false of nan)
IsZero(x) == x.kind = "num" /\ x.mag = 0

IsNumDigit(c) == c \in {"0", "1"}
DigitVal(c) == IF c = "1" THEN 1 ELSE 0

RECURSIVE DecVal(_)
DecVal(ds) ==
    IF ds = <<>> THEN 0
    ELSE 10 * DecVal(SubSeq(ds, 1, Len(ds) - 1)) + DigitVal(ds[Len(ds)])

\* str.lower() on one character
Lower(c) ==
    IF c = "N" THEN "n" ELSE IF c = "A" THEN "a" ELSE IF c = "G" THEN "g" ELSE c

LowerSeq(s) == [i \in 1..Len(s) |-> Lower(s[i])]

\* float(s) on a string without whitespace: [sign] digits, or [sign] nan in
\* any letter case; ok = FALSE is the ValueError
FloatOf(s) ==
    LET neg == s # <<>> /\ s[1] = "-"
        body == IF neg THEN Tail(s) ELSE s
    IN  IF body = <<>> THEN [ok |-> FALSE, val |-> Zero]
        ELSE IF \A i \in 1..Len(body) : IsNumDigit(body[i])
             THEN [ok |-> TRUE, val |-> Float(neg, DecVal(body))]
        ELSE IF LowerSeq(body) = <<"n", "a", "n">>
             THEN [ok |-> TRUE, val |-> NaN(neg)]
        ELSE [ok |-> FALSE, val |-> Zero]

RECURSIVE ReplaceNGN(_)
\* s.replace("NGN", "")
ReplaceNGN(s) ==
    IF Len(s) < 3 THEN s
    ELSE IF SubSeq(s, 1, 3) = <<"N", "G", "N">> THEN ReplaceNGN(SubSeq(s, 4, Len(s)))
    ELSE <<Head(s)>> \o ReplaceNGN(Tail(s))

\* re.sub(r"[#,\s]", "", str(val).replace("NGN","").replace(naira,""))
Unformatted(s) ==
    SelectSeq(SelectSeq(ReplaceNGN(s), LAMBDA c : c # "$"),
              LAMBDA c : ~(c \in {"#", ","} \/ IsWs(c)))

\* s.strip("()")
StripParens(s) ==
    LET keep == {i \in 1..Len(s) : s[i] \notin {"(", ")"}}
    IN  IF keep = {} THEN <<>> ELSE SubSeq(s, SetMin(keep), SetMax(keep))

\* the strings line 17 compares the stripped value with
Placeholders ==
    {<<>>, <<"-">>, <<"n", "i", "l">>, <<"N", "i", "l">>, <<"N", "/", "A">>,
     <<"n", "a", "n">>}

\* _clean_num(val)
CleanNum(v) ==
    IF v.none \/ Strip(v.s) \in Placeholders THEN Zero
    ELSE LET s == Unformatted(v.s)
             negative == s # <<>> /\ s[1] = "(" /\ s[Len(s)] = ")"
             f == FloatOf(StripParens(s))
         IN  IF ~f.ok THEN Zero
             ELSE IF negative THEN Negate(f.val) ELSE f.val

NumChars == {"0", "1", "-", "(", ")", ",", " ", "n", "a", "N", "A", "i", "l", "/", "G", "$"}
NumStrings == UNION {[1..n -> NumChars] : n \in 0..MaxNumLen}

InitNum ==
    /\ val \in {[none |-> TRUE, s |-> <<>>]} \cup {[none |-> FALSE, s |-> t] : t \in NumStrings}
    /\ npc = "call"
    /\ nresult = Zero
    /\ ChainIdle
    /\ ChunkIdle
    /\ JsonIdle
    /\ ParseIdle
    /\ SummaryIdle
    /\ PageIdle

\* _clean_num(r.get("debit", 0))
CleanNumCall ==
    /\ npc = "call"
    /\ nresult' = CleanNum(val)
    /\ npc' = "returned"
    /\ UNCHANGED val
    /\ UNCHANGED <<chainVars, chunkVars, jsonVars, parseVars, summaryVars, pageVars>>

NextNum == CleanNumCall

SpecNum == InitNum /\ [][NextNum]_vars

\* [sign] digits
IsNumeral(s) ==
    LET body == IF s # <<>> /\ s[1] = "-" THEN Tail(s) ELSE s
    IN  body # <<>> /\ \A i \in 1..Len(body) : IsNumDigit(body[i])

\* what is left of the value once thousands separators, whitespace, the
\* currency markers and the enclosing parentheses are removed
Residue(s) == StripParens(Unformatted(s))

(***************************************************************************)
(* C8: _clean_num returns 0.0 for None and for the placeholders "", "-",   *)
(* "nil", "N/A", "nan" in any letter case, and whenever what remains after *)
(* removing separators, whitespace, currency markers and enclosing         *)
(* parentheses is not a number; a number wholly enclosed in parentheses    *)
(* yields the negated number.                                              *)
(***************************************************************************)
C8_CleanNumDefaults ==
    npc = "returned" =>
        /\ val.none => IsZero(nresult)
        /\ (~val.none /\ LowerSeq(Strip(val.s)) \in
                {<<>>, <<"-">>, <<"n", "i", "l">>, <<"n", "/", "a">>, <<"n", "a", "n">>})
            => IsZero(nresult)
        /\ (~val.none /\ ~IsNumeral(Residue(val.s))) => IsZero(nresult)
        /\ (/\ ~val.none
            /\ Len(val.s) >= 3
            /\ val.s[1] = "(" /\ val.s[Len(val.s)] = ")"
            /\ IsNumeral(SubSeq(val.s, 2, Len(val.s) - 1)))
            => nresult = Negate(FloatOf(SubSeq(val.s, 2, Len(val.s) - 1)).val)

(***************************************************************************)
(* ai_parser.py: AIParser._parse_chunk and AIParser.parse.  A candidate is *)
(* one dict of the salvaged response; its numeric fields are the           *)
(* arguments of _clean_num.                                                *)
(***************************************************************************)
\* r["description"][:40]
KeyPrefixLen == 40

Str(s) == [none |-> FALSE, s |-> s]

Desc(c39, c40, c41) == Rep("d", KeyPrefixLen - 2) \o <<c39, c40, c41>>

BaseCandidate ==
    [date |-> <<"0", "1">>, value_date |-> <<"0", "1">>,
     description |-> Desc("d", "d", "x"),
     debit |-> Str(<<"1">>), credit |-> Str(<<>>), balance |-> Str(<<"1", "0">>)]

\* the base row again with another balance, written with other spacing
BalanceVariant ==
    [BaseCandidate EXCEPT !.balance = Str(<<"1", "1">>), !.date = <<" ", "0", "1">>,
                          !.debit = Str(<<"1", " ">>)]
\* the description differs after its 40th character only
TailVariant == [BaseCandidate EXCEPT !.description = Desc("d", "d", "y")]
\* the description differs at its 40th character
PrefixVariant == [BaseCandidate EXCEPT !.description = Desc("d", "e", "x")]
DebitVariant == [BaseCandidate EXCEPT !.debit = Str(<<"(", "1", ")">>)]
CreditVariant == [BaseCandidate EXCEPT !.credit = Str(<<"1">>)]
DateVariant == [BaseCandidate EXCEPT !.date = <<"0", "0">>]
\* rows whose debit reads NaN
NanCandidate == [BaseCandidate EXCEPT !.debit = Str(<<"N", "a", "N">>)]
NanBalanceVariant ==
    [BaseCandidate EXCEPT !.debit = Str(<<"N", "a", "N">>), !.balance = Str(<<"1", "1">>)]

Candidates ==
    {BaseCandidate, BalanceVariant, TailVariant, PrefixVariant, DebitVariant,
     CreditVariant, DateVariant, NanCandidate, NanBalanceVariant}

\* the dict appended to `cleaned` for the candidate r: lines 144-151
Normalise(r) ==
    [date |-> Strip(r.date), value_date |-> Strip(r.value_date),
     description |-> Strip(r.description),
     debit |-> CleanNum(r.debit), credit |-> CleanNum(r.credit),
     balance |-> CleanNum(r.balance)]

\* a == b on two floats
FloatEq(a, b) ==
    /\ a.kind = "num" /\ b.kind = "num"
    /\ a.mag = b.mag
    /\ a.neg = b.neg \/ a.mag = 0

\* s[:n]
Prefix(s, n) == SubSeq(s, 1, IF Len(s) < n THEN Len(s) ELSE n)

\* key = (r["date"], r["description"][:40], r["debit"], r["credit"])
KeyOf(r) == <<r.date, Prefix(r.description, KeyPrefixLen), r.debit, r.credit>>

\* equality of two keys as tuple comparison finds it (the floats of two
\* records are distinct objects, so a nan equals no other)
KeyEq(k1, k2) ==
    /\ k1[1] = k2[1] /\ k1[2] = k2[2]
    /\ FloatEq(k1[3], k2[3]) /\ FloatEq(k1[4], k2[4])

\* key in seen
InSeen(key, seen) == \E k \in seen : KeyEq(k, key)

RECURSIVE DedupLoop(_, _, _)
\* the loop of lines 173-178 over the rows left
DedupLoop(rows, seen, uniq) ==
    IF rows = <<>> THEN uniq
    ELSE IF ~InSeen(KeyOf(Head(rows)), seen)
         THEN DedupLoop(Tail(rows), seen \cup {KeyOf(Head(rows))}, Append(uniq, Head(rows)))
         ELSE DedupLoop(Tail(rows), seen, uniq)

\* seen, unique = set(), []; for r in all_rows: ...
Dedup(rows) == DedupLoop(rows, {}, <<>>)

RECURSIVE NormaliseAll(_)
NormaliseAll(cs) ==
    IF cs = <<>> THEN <<>> ELSE <<Normalise(Head(cs))>> \o NormaliseAll(Tail(cs))

CandidateLists == UNION {[1..n -> Candidates] : n \in 0..MaxRows}

\* parse after the chunk loop, with the rows the chunks produced
InitDedup ==
    /\ total_chunks = 1
    /\ chunk_i = 2
    /\ \E cs \in CandidateLists :
        /\ all_rows = NormaliseAll(cs)
        /\ chunk_log = <<[kind |-> "rows", tokens |-> 0, returned |-> NormaliseAll(cs)]>>
    /\ total_tokens = 0
    /\ unique = <<>>
    /\ ppc = "dedup"
    /\ ChainIdle
    /\ ChunkIdle
    /\ JsonIdle
    /\ NumIdle
    /\ SummaryIdle
    /\ PageIdle

\* the dedup loop and `return unique`
DedupRows ==
    /\ ppc = "dedup"
    /\ unique' = Dedup(all_rows)
    /\ ppc' = "done"
    /\ UNCHANGED <<total_chunks, chunk_i, all_rows, total_tokens, chunk_log>>
    /\ UNCHANGED <<chainVars, chunkVars, jsonVars, numVars, summaryVars, pageVars>>

NextDedup == DedupRows

SpecDedup == InitDedup /\ [][NextDedup]_vars

\* the key of the claim: the four fields as values, a zero of either sign
\* being zero and a nan being nan
ValueOf(x) == IF x.kind = "nan" THEN NaN(FALSE) ELSE IF x.mag = 0 THEN Zero ELSE x
ClaimKey(r) ==
    <<r.date, Prefix(r.description, 40), ValueOf(r.debit), ValueOf(r.credit)>>

\* the indices of the records that are the first to carry their key
FirstSeen(rows) ==
    {i \in 1..Len(rows) : \A j \in 1..(i - 1) : ClaimKey(rows[j]) # ClaimKey(rows[i])}

RECURSIVE Pick(_, _, _)
\* the records of rows at the indices of keep, in order, from index i on
Pick(rows, keep, i) ==
    IF i > Len(rows) THEN <<>>
    ELSE (IF i \in keep THEN <<rows[i]>> ELSE <<>>) \o Pick(rows, keep, i + 1)

(***************************************************************************)
(* C9: the deduplicated list is the input restricted to the records that   *)
(* are the first to carry their key (date, description[0:40], debit,       *)
(* credit), in input order: no key twice, every key once, records that     *)
(* differ only in balance collapse to the first.                           *)
(***************************************************************************)
C9_DedupFirstSeen ==
    ppc = "done" =>
        /\ unique = Pick(all_rows, FirstSeen(all_rows), 1)
        /\ \A i, j \in 1..Len(unique) :
                i # j => ClaimKey(unique[i]) # ClaimKey(unique[j])

\* rows of a response: dicts, and entries that are no dict (skipped)
Entry(c) == [dict |-> TRUE, c |-> c]
JunkEntry == [dict |-> FALSE, c |-> BaseCandidate]
Entries == {Entry(BaseCandidate), Entry(BalanceVariant), Entry(DebitVariant), JunkEntry}
EntryLists == {<<>>} \cup {<<e>> : e \in Entries} \cup {<<e, f>> : e, f \in Entries}

\* resp.usage.total_tokens if resp.usage else 0
TokenUsages == {0, 7}

\* what the collaborator does for one chunk: create() raises; the response
\* has no usable content (.strip() or choices[0] raises after the tokens
\* were counted); _extract_json returned something that cannot be iterated;
\* _extract_json returned rows
Responses ==
    {[kind |-> "call_fails", tokens |-> 0, rows |-> <<>>]}
        \cup {[kind |-> k, tokens |-> t, rows |-> <<>>] :
                k \in {"no_content", "not_iterable"}, t \in TokenUsages}
        \cup {[kind |-> "rows", tokens |-> t, rows |-> es] :
                t \in TokenUsages, es \in EntryLists}

RECURSIVE CleanedRows(_)
\* the list `cleaned` of _parse_chunk: one dict per entry that is a dict
CleanedRows(es) ==
    IF es = <<>> THEN <<>>
    ELSE (IF Head(es).dict THEN <<Normalise(Head(es).c)>> ELSE <<>>)
            \o CleanedRows(Tail(es))

\* what _parse_chunk returns: cleaned, or [] from the except branch
ParseChunkRows(o) == IF o.kind = "rows" THEN CleanedRows(o.rows) ELSE <<>>

\* self.total_tokens += ...: not reached when create() raised
TokensAfter(t, o) == IF o.kind = "call_fails" THEN t ELSE t + o.tokens

\* a parse that keeps the rows of the latest chunk only
ExtendOverwrite(all, rows) == rows

\* all_rows.extend(rows)
Extend(all, rows) == all \o rows

\* chunks = chunk_text(...); all_rows = []
InitParse ==
    /\ total_chunks \in 0..MaxChunks
    /\ chunk_i = 1
    /\ all_rows = <<>>
    /\ total_tokens = 0
    /\ chunk_log = <<>>
    /\ unique = <<>>
    /\ ppc = "chunks"
    /\ ChainIdle
    /\ ChunkIdle
    /\ JsonIdle
    /\ NumIdle
    /\ SummaryIdle
    /\ PageIdle

\* one iteration of the chunk loop: rows = self._parse_chunk(chunk, i);
\* all_rows.extend(rows); after the last chunk, the dedup loop and return
ParseChunk ==
    /\ ppc = "chunks"
    /\ chunk_i <= total_chunks
    /\ \E o \in Responses :
        LET rows == ParseChunkRows(o) IN
        /\ total_tokens' = TokensAfter(total_tokens, o)
        /\ all_rows' = Extend(all_rows, rows)
        /\ chunk_log' = Append(chunk_log,
                               [kind |-> o.kind, tokens |-> o.tokens, returned |-> rows])
    /\ chunk_i' = chunk_i + 1
    /\ IF chunk_i = total_chunks
       THEN unique' = Dedup(all_rows') /\ ppc' = "done"
       ELSE UNCHANGED <<unique, ppc>>
    /\ UNCHANGED total_chunks
    /\ UNCHANGED <<chainVars, chunkVars, jsonVars, numVars, summaryVars, pageVars>>

\* no chunk at all: the loop body never runs
ParseNoChunks ==
    /\ ppc = "chunks"
    /\ total_chunks = 0
    /\ unique' = Dedup(all_rows)
    /\ ppc' = "done"
    /\ UNCHANGED <<total_chunks, chunk_i, all_rows, total_tokens, chunk_log>>
    /\ UNCHANGED <<chainVars, chunkVars, jsonVars, numVars, summaryVars, pageVars>>

NextParse == ParseChunk \/ ParseNoChunks

SpecParse == InitParse /\ [][NextParse]_vars

RECURSIVE Returned(_)
\* the lists _parse_chunk returned, concatenated in chunk order
Returned(log) ==
    IF log = <<>> THEN <<>> ELSE Head(log).returned \o Returned(Tail(log))

\* with every debit and credit a number, the deduplicated list is the
\* first-seen restriction
FiniteKeys(rows) ==
    \A i \in 1..Len(rows) : rows[i].debit.kind = "num" /\ rows[i].credit.kind = "num"

DedupFirstSeenOnNumbers ==
    (ppc = "done" /\ FiniteKeys(all_rows)) =>
        unique = Pick(all_rows, FirstSeen(all_rows), 1)

(***************************************************************************)
(* C10: the chunks are processed one at a time in order; a chunk whose     *)
(* collaborator call or response handling fails contributes no record and  *)
(* the later chunks are still processed; all_rows is the concatenation of  *)
(* the per-chunk lists in chunk order; total_tokens never decreases.       *)
(***************************************************************************)
C10_AccumulatedState ==
    /\ Len(chunk_log) = chunk_i - 1
    /\ all_rows = Returned(chunk_log)
    /\ \A i \in 1..Len(chunk_log) :
            chunk_log[i].kind # "rows" => chunk_log[i].returned = <<>>
    /\ ppc = "done" => Len(chunk_log) = total_chunks

C10_ChunkStep ==
    /\ total_tokens' >= total_tokens
    /\ chunk_i' \in {chunk_i, chunk_i + 1}
    /\ Len(all_rows') >= Len(all_rows)
    /\ SubSeq(all_rows', 1, Len(all_rows)) = all_rows

C2_FailureIsEmptyYield ==
    \A i \in 1..Len(tried) :
        tried[i].threw => tried[i].y = <<>> /\ outcome # "error"

(***************************************************************************)
(* C3: when every page committed an empty yield the front end reports      *)
(* "no content" and never calls the collaborator; "no transactions" is     *)
(* reported only when some page contributed text.                          *)
(***************************************************************************)
C3_NoContentDistinct ==
    (pc = "done" /\ outcome # "error") =>
        /\ (\A p \in 1..Len(all_pages) : PageYield(p) = <<>>)
                => (outcome = "no_content" /\ ~called)
        /\ outcome = "no_transactions"
                => \E p \in 1..Len(all_pages) : PageYield(p) # <<>>

(***************************************************************************)
(* extract.py: main, steps 2 to 4 (api.py: extract has the same steps),    *)
(* with reporter.py: Reporter._build_df.  The list is what parser.parse    *)
(* returned: deduplicated records whose amounts are the floats _clean_num  *)
(* produced, a nan among them.  The amounts are whole numbers, so float    *)
(* sums are exact.                                                         *)
(***************************************************************************)
\* the float _clean_num returns for the string NaN
NanAmount == CleanNum(Str(<<"N", "a", "N">>))

DebitAmounts == {Zero, Float(FALSE, 200), NanAmount}
CreditAmounts == {Zero, Float(FALSE, 500)}
BalanceAmounts == {Float(FALSE, 1000), Float(FALSE, 800), Float(FALSE, 1300), NanAmount}

\* a record as _parse_chunk appends it
Transaction(d, c, b) ==
    [date |-> <<"0", "1">>, value_date |-> <<"0", "1">>, description |-> <<"d">>,
     debit |-> d, credit |-> c, balance |-> b]

Transactions ==
    {Transaction(d, c, b) : d \in DebitAmounts, c \in CreditAmounts, b \in BalanceAmounts}

TransactionLists == UNION {[1..n -> Transactions] : n \in 0..MaxTxRows}

\* pd.to_numeric(df[col], errors="coerce").fillna(0.0) on one float
FillNa(x) == IF x.kind = "nan" THEN Zero ELSE x

\* Reporter._build_df on a non-empty list: one row per record, in order
BuildDf(txs) ==
    [i \in 1..Len(txs) |->
        [txs[i] EXCEPT !.debit = FillNa(@), !.credit = FillNa(@), !.balance = FillNa(@)]]

\* a float that is a number, as an integer, and back
AsInt(x) == IF x.neg THEN 0 - x.mag ELSE x.mag
FromInt(n) == IF n < 0 THEN Float(TRUE, 0 - n) ELSE Float(FALSE, n)

RECURSIVE ColumnSum(_, _)
\* float(df[col].sum())
ColumnSum(frame, col) ==
    IF frame = <<>> THEN 0
    ELSE ColumnSum(SubSeq(frame, 1, Len(frame) - 1), col) + AsInt(frame[Len(frame)][col])

\* int((df[col] > 0).sum())
PositiveRows(frame, col) == Cardinality({i \in 1..Len(frame) : AsInt(frame[i][col]) > 0})

\* df["balance"].iloc[-1] if not df.empty else 0.0
ClosingBal(frame) == IF frame = <<>> THEN Zero ELSE frame[Len(frame)].balance

\* "surplus" if net_flow >= 0 else "deficit"
Direction(net_flow) == IF AsInt(net_flow) >= 0 THEN "surplus" ELSE "deficit"

\* result["summary"]
Summary(txs, frame) ==
    LET total_debits == ColumnSum(frame, "debit")
        total_credits == ColumnSum(frame, "credit")
        net_flow == FromInt(total_credits - total_debits)
    IN  [total_rows |-> Len(txs),
         debit_rows |-> PositiveRows(frame, "debit"),
         credit_rows |-> PositiveRows(frame, "credit"),
         total_debits |-> FromInt(total_debits),
         total_credits |-> FromInt(total_credits),
         net_cash_flow |-> net_flow,
         closing_balance |-> ClosingBal(frame),
         direction |-> Direction(net_flow)]

\* transactions = parser.parse(raw_text)
InitSummary ==
    /\ \E l \in TransactionLists : transactions = Dedup(l)
    /\ df = <<>>
    /\ summary = [total_rows |-> 0, debit_rows |-> 0, credit_rows |-> 0,
                  total_debits |-> Zero, total_credits |-> Zero,
                  net_cash_flow |-> Zero, closing_balance |-> Zero,
                  direction |-> "none"]
    /\ spc = "parsed"
    /\ ChainIdle
    /\ ChunkIdle
    /\ JsonIdle
    /\ NumIdle
    /\ ParseIdle
    /\ PageIdle

\* if not transactions: "No transactions found"
NoTransactions ==
    /\ spc = "parsed"
    /\ transactions = <<>>
    /\ spc' = "no_transactions"
    /\ UNCHANGED <<transactions, df, summary>>
    /\ UNCHANGED <<chainVars, chunkVars, jsonVars, numVars, parseVars, pageVars>>

\* steps 3 and 4: Reporter(transactions), the sums, the printed result
BuildSummary ==
    /\ spc = "parsed"
    /\ transactions # <<>>
    /\ df' = BuildDf(transactions)
    /\ summary' = Summary(transactions, df')
    /\ spc' = "printed"
    /\ UNCHANGED transactions
    /\ UNCHANGED <<chainVars, chunkVars, jsonVars, numVars, parseVars, pageVars>>

NextSummary == NoTransactions \/ BuildSummary

SpecSummary == InitSummary /\ [][NextSummary]_vars

\* a - b on two floats that are numbers
FloatSub(a, b) == FromInt(AsInt(a) - AsInt(b))

\* the scenario of three rows: an opening balance, a debit, a credit
Scenario ==
    <<Transaction(Zero, Zero, Float(FALSE, 1000)),
      Transaction(Float(FALSE, 200), Zero, Float(FALSE, 800)),
      Transaction(Zero, Float(FALSE, 500), Float(FALSE, 1300))>>

\* on a list whose last balance is a number the summary is the one C11
\* describes, and the scenario gives 300, 1300, surplus
SummaryOnNumbers ==
    (spc = "printed" /\ transactions[Len(transactions)].balance.kind = "num") =>
        /\ summary.net_cash_flow = FloatSub(summary.total_credits, summary.total_debits)
        /\ FloatEq(summary.closing_balance, transactions[Len(transactions)].balance)
        /\ summary.direction = "surplus" <=> AsInt(summary.net_cash_flow) >= 0
        /\ summary.direction \in {"surplus", "deficit"}
        /\ transactions = Scenario =>
            /\ summary.net_cash_flow = Float(FALSE, 300)
            /\ summary.closing_balance = Float(FALSE, 1300)
            /\ summary.direction = "surplus"

(***************************************************************************)
(* C11: for a non-empty final list the summary has net_cash_flow =         *)
(* total_credits - total_debits, closing_balance equal to the balance of   *)
(* the last record of the list, and direction surplus exactly when         *)
(* net_cash_flow >= 0, deficit otherwise.                                  *)
(***************************************************************************)
C11_SummaryOfRecords ==
    spc = "printed" =>
        /\ summary.net_cash_flow = FloatSub(summary.total_credits, summary.total_debits)
        /\ FloatEq(summary.closing_balance, transactions[Len(transactions)].balance)
        /\ summary.direction = "surplus" <=> AsInt(summary.net_cash_flow) >= 0
        /\ summary.direction \in {"surplus", "deficit"}

(***************************************************************************)
(* extractor.py: _rows_from_words.  A word is a record [x0, y0, x1, text]  *)
(* with whole-number coordinates; word_list is a sequence, in the order    *)
(* the page supplies the words.  An element of a row keeps the same four   *)
(* fields.                                                                 *)
(***************************************************************************)
\* the default of the parameter y_tol, which _extract_page_pymupdf passes too
YTol == 5

Word(x, y, t) == [x0 |-> x, y0 |-> y, x1 |-> x + 2, text |-> t]

Abs(n) == IF n < 0 THEN 0 - n ELSE n

\* round(y / tol) on whole numbers y >= 0: to the nearest integer, a half
\* going to the even neighbour
Round(y, tol) ==
    LET q == y \div tol
        r == y % tol
    IN  IF 2 * r < tol THEN q
        ELSE IF 2 * r > tol THEN q + 1
        ELSE IF q % 2 = 0 THEN q ELSE q + 1

\* the sort key (round(w[1] / y_tol), w[0]) and the order of two keys
BucketKey(w) == <<Round(w.y0, YTol), w.x0>>
KeyLeq(k1, k2) == k1[1] < k2[1] \/ (k1[1] = k2[1] /\ k1[2] <= k2[2])
ByBucketThenX(a, b) == KeyLeq(BucketKey(a), BucketKey(b))
\* the key r[1] of the sort of one row
ByX(a, b) == a.x0 <= b.x0

\* w put into the sorted words srt behind every word whose key is not
\* after its own
InsertWord(srt, w) ==
    LET n == Cardinality({i \in 1..Len(srt) : ByBucketThenX(srt[i], w)})
    IN  SubSeq(srt, 1, n) \o <<w>> \o SubSeq(srt, n + 1, Len(srt))

RECURSIVE SortedWords(_)
\* sorted(word_list, key=lambda w: (round(w[1] / y_tol), w[0])): stable,
\* words of equal key keep their input order
SortedWords(ws) ==
    IF ws = <<>> THEN <<>>
    ELSE InsertWord(SortedWords(SubSeq(ws, 1, Len(ws) - 1)), ws[Len(ws)])

\* w put into the sorted row srt behind every element not right of it
InsertInRow(srt, w) ==
    LET n == Cardinality({i \in 1..Len(srt) : ByX(srt[i], w)})
    IN  SubSeq(srt, 1, n) \o <<w>> \o SubSeq(srt, n + 1, Len(srt))

RECURSIVE SortedRow(_)
\* sorted(current_row, key=lambda r: r[1]): stable
SortedRow(row) ==
    IF row = <<>> THEN <<>>
    ELSE InsertInRow(SortedRow(SubSeq(row, 1, Len(row) - 1)), row[Len(row)])

\* if current_row: rows.append(sorted(current_row, key=lambda r: r[1]))
Flush(rs, current_row) ==
    IF current_row # <<>> THEN Append(rs, SortedRow(current_row)) ELSE rs

RECURSIVE RowsLoop(_, _, _, _)
\* the for loop over sorted_words and the final flush
RowsLoop(ws, rs, current_row, current_y) ==
    IF ws = <<>> THEN Flush(rs, current_row)
    ELSE LET w == Head(ws)
         IN  IF Abs(w.y0 - current_y) <= YTol
             THEN RowsLoop(Tail(ws), rs, Append(current_row, w), current_y)
             ELSE RowsLoop(Tail(ws), Flush(rs, current_row), <<w>>, w.y0)

\* _rows_from_words(word_list, y_tol=5)
RowsFromWords(ws) ==
    IF ws = <<>> THEN <<>>
    ELSE LET sorted_words == SortedWords(ws)
         IN  RowsLoop(sorted_words, <<>>, <<>>, sorted_words[1].y0)

\* words of two left edges on four baselines: 3, 7 and 9 lie within the
\* tolerance of their neighbour, 3 and 9 do not, 20 is far from all
RowWords == {Word(x, y, "w") : x \in {0, 1}, y \in {3, 7, 9, 20}}

RowWordLists == UNION {[1..n -> RowWords] : n \in 0..MaxWords}

InitRows ==
    /\ word_list \in RowWordLists
    /\ page_rows = <<>>
    /\ col_map = <<>>
    /\ header_idx = 0
    /\ assigned = <<>>
    /\ page_lines = <<>>
    /\ xpc = "call"
    /\ ChainIdle
    /\ ChunkIdle
    /\ JsonIdle
    /\ NumIdle
    /\ ParseIdle
    /\ SummaryIdle

\* rows = _rows_from_words(word_list, y_tol=5)
RowsFromWordsCall ==
    /\ xpc = "call"
    /\ page_rows' = RowsFromWords(word_list)
    /\ xpc' = "returned"
    /\ UNCHANGED <<word_list, col_map, header_idx, assigned, page_lines>>
    /\ UNCHANGED <<chainVars, chunkVars, jsonVars, numVars, parseVars, summaryVars>>

NextRows == RowsFromWordsCall

SpecRows == InitRows /\ [][NextRows]_vars

\* how often the word w occurs in the sequence ws, and in the rows rs
Occurrences(ws, w) == Cardinality({i \in 1..Len(ws) : ws[i] = w})

RECURSIVE OccurrencesInRows(_, _)
OccurrencesInRows(rs, w) ==
    IF rs = <<>> THEN 0 ELSE Occurrences(Head(rs), w) + OccurrencesInRows(Tail(rs), w)

\* the indexes of the rows that hold the word w
RowsOf(rs, w) == {r \in 1..Len(rs) : Occurrences(rs[r], w) > 0}

\* every word is in the rows as often as in the input, and in one row only
EachWordInOneRow ==
    xpc = "returned" =>
        \A w \in RowWords :
            /\ OccurrencesInRows(page_rows, w) = Occurrences(word_list, w)
            /\ Cardinality(RowsOf(page_rows, w)) <= 1

(***************************************************************************)
(* C12: two words whose y0 differ by at most the tolerance are in the same *)
(* row, and every input word is in exactly one row.                        *)
(***************************************************************************)
C12_CloseWordsShareRow ==
    xpc = "returned" =>
        /\ \A i, j \in 1..Len(word_list) :
              Abs(word_list[i].y0 - word_list[j].y0) <= YTol
                  => RowsOf(page_rows, word_list[i]) = RowsOf(page_rows, word_list[j])
        /\ \A w \in RowWords :
              /\ OccurrencesInRows(page_rows, w) = Occurrences(word_list, w)
              /\ Cardinality(RowsOf(page_rows, w)) <= 1

\* the sequences that hold the words of ws in another order
Reorderings(ws) ==
    {[i \in 1..Len(ws) |-> ws[f[i]]] : f \in Permutations(1..Len(ws))}

(***************************************************************************)
(* C14: the rows depend on the collection of words only: every reordering  *)
(* of word_list gives the same rows, with the same members, in the same    *)
(* order.                                                                  *)
(***************************************************************************)
C14_OrderIndependent ==
    xpc = "returned" =>
        \A ws \in Reorderings(word_list) : RowsFromWords(ws) = page_rows

(***************************************************************************)
(* extractor.py: _extract_page_pymupdf with _is_header, _cluster_columns   *)
(* and _nearest_col.  The text of a word is a header word (Date, Narration,*)
(* Debit, Credit, Balance: one keyword each) or the data word x.  col_map  *)
(* is the dict as a sequence of [col, cx] pairs in insertion order.  The   *)
(* words are two units wide, so the centre (x0 + x1) / 2 is whole.         *)
(***************************************************************************)
ColumnOrder == <<"date", "description", "debit", "credit", "balance">>

\* the first of the five patterns that matches the text of one word, in
\* the order of the elif chain
Keyword(t) ==
    IF t = "Date" THEN "date"
    ELSE IF t = "Narration" THEN "description"
    ELSE IF t = "Debit" THEN "debit"
    ELSE IF t = "Credit" THEN "credit"
    ELSE IF t = "Balance" THEN "balance"
    ELSE "none"

\* _is_header([w[0] for w in row])
IsHeader(row) ==
    /\ \E i \in 1..Len(row) : Keyword(row[i].text) = "date"
    /\ \E i \in 1..Len(row) : Keyword(row[i].text) \in {"debit", "credit"}

\* cx = (x0 + x1) / 2
Centre(w) == (w.x0 + w.x1) \div 2

\* cols[col] = cx: a new key goes last, a present key keeps its place
DictPut(cm, col, cx) ==
    IF \E i \in 1..Len(cm) : cm[i].col = col
    THEN [i \in 1..Len(cm) |-> IF cm[i].col = col THEN [col |-> col, cx |-> cx] ELSE cm[i]]
    ELSE Append(cm, [col |-> col, cx |-> cx])

RECURSIVE ClusterColumns(_, _)
\* _cluster_columns(header_words), cols being the dict built so far
ClusterColumns(header_words, cols) ==
    IF header_words = <<>> THEN cols
    ELSE LET w == Head(header_words)
         IN  ClusterColumns(Tail(header_words),
                            IF Keyword(w.text) = "none" THEN cols
                            ELSE DictPut(cols, Keyword(w.text), Centre(w)))

\* abs(col_map[c] - cx) for the c at place i
Distance(cm, i, cx) == Abs(cm[i].cx - cx)

\* a choice that takes the last of the nearest columns
NearestColLast(cx, cm) ==
    IF cm = <<>> THEN "description"
    ELSE cm[SetMax({i \in 1..Len(cm) :
                \A j \in 1..Len(cm) : Distance(cm, i, cx) <= Distance(cm, j, cx)})].col

\* _nearest_col(cx, col_map): min returns the first key of least distance
NearestCol(cx, cm) ==
    IF cm = <<>> THEN "description"
    ELSE cm[SetMin({i \in 1..Len(cm) :
                \A j \in 1..Len(cm) : Distance(cm, i, cx) <= Distance(cm, j, cx)})].col

\* the index of the first header row, 0 when there is none (rows are
\* numbered from 1 here, header_idx = i of the code is this index less one)
FirstHeader(rs) ==
    IF \E i \in 1..Len(rs) : IsHeader(rs[i])
    THEN SetMin({i \in 1..Len(rs) : IsHeader(rs[i])})
    ELSE 0

\* the column chosen for each word of the row
ColumnsOf(row, cm) == [k \in 1..Len(row) |-> NearestCol(Centre(row[k]), cm)]

RECURSIVE CellTexts(_, _, _)
\* cells[col]: the texts appended for col, in the order of the row
CellTexts(row, cols, col) ==
    IF row = <<>> THEN <<>>
    ELSE (IF Head(cols) = col THEN <<Head(row).text>> ELSE <<>>)
            \o CellTexts(Tail(row), Tail(cols), col)

\* the five cells of the line, in the order of the join
Cells(row, cols) == [c \in 1..Len(ColumnOrder) |-> CellTexts(row, cols, ColumnOrder[c])]

\* " ".join(w[0] for w in row), as the list of the texts
Passthrough(row) == [k \in 1..Len(row) |-> row[k].text]

\* line.strip(" |") is empty: every text of the line is made of bars
OnlyBars(texts) == \A k \in 1..Len(texts) : texts[k] = "|"

\* what the loop body computes for one row
LineOf(row, cm) ==
    IF cm # <<>>
    THEN [structured |-> TRUE, cols |-> ColumnsOf(row, cm),
          cells |-> Cells(row, ColumnsOf(row, cm)), texts |-> Passthrough(row)]
    ELSE [structured |-> FALSE, cols |-> <<>>,
          cells |-> <<>>, texts |-> Passthrough(row)]

\* on two baselines: the header words at the outer two of three left
\* edges, the data word at all three
ColumnWords ==
    {Word(x, y, t) : x \in {0, 4}, y \in {0, 10}, t \in {"Date", "Debit"}}
        \cup {Word(x, y, "x") : x \in {0, 2, 4}, y \in {0, 10}}

ColumnWordLists == UNION {[1..n -> ColumnWords] : n \in 0..MaxWords}

InitColumns ==
    /\ word_list \in ColumnWordLists
    /\ page_rows = <<>>
    /\ col_map = <<>>
    /\ header_idx = 0
    /\ assigned = <<>>
    /\ page_lines = <<>>
    /\ xpc = "call"
    /\ ChainIdle
    /\ ChunkIdle
    /\ JsonIdle
    /\ NumIdle
    /\ ParseIdle
    /\ SummaryIdle

\* _extract_page_pymupdf(page): rows, header search, one line per row from
\* the header row on, the lines that are not blank kept
ExtractPagePymupdf ==
    /\ xpc = "call"
    /\ LET rs == RowsFromWords(word_list)
           h == FirstHeader(rs)
           cm == IF h = 0 THEN <<>> ELSE ClusterColumns(rs[h], <<>>)
           first == IF h = 0 THEN 1 ELSE h
           done == [r \in 1..(Len(rs) - first + 1) |-> LineOf(rs[first + r - 1], cm)]
       IN  /\ page_rows' = rs
           /\ col_map' = cm
           /\ header_idx' = first - 1
           /\ assigned' = done
           /\ page_lines' = SelectSeq(done, LAMBDA l : ~OnlyBars(l.texts))
    /\ xpc' = "returned"
    /\ UNCHANGED word_list
    /\ UNCHANGED <<chainVars, chunkVars, jsonVars, numVars, parseVars, summaryVars>>

NextColumns == ExtractPagePymupdf

SpecColumns == InitColumns /\ [][NextColumns]_vars

\* the columns declared in col_map, and the centre of a declared column
Declared(cm) == {cm[i].col : i \in 1..Len(cm)}
CentreOf(cm, col) == cm[CHOOSE i \in 1..Len(cm) : cm[i].col = col].cx
PlaceOf(cm, col) == CHOOSE i \in 1..Len(cm) : cm[i].col = col

\* the row of page_rows that the r-th processed row is
ProcessedRow(r) == page_rows[header_idx + r]

\* the word w of a row is equally far from two declared columns and no
\* declared column is nearer
Equidistant(w, cm) ==
    \E i, j \in 1..Len(cm) :
        /\ i # j
        /\ Distance(cm, i, Centre(w)) = Distance(cm, j, Centre(w))
        /\ \A k \in 1..Len(cm) : Distance(cm, i, Centre(w)) <= Distance(cm, k, Centre(w))

\* the places of the line's words that were assigned col
InCell(line, col) == SelectSeq(line.cols, LAMBDA c : c = col)

(***************************************************************************)
(* C13: with a non-empty col_map every word of every row from the header   *)
(* row on is assigned one column; the column is a key of col_map; no       *)
(* declared column is strictly nearer to the centre of the word; of the    *)
(* nearest columns the one inserted first is chosen; the cell of a column  *)
(* holds the texts of the words assigned to it, in row order, so a word is *)
(* in one cell only and the cell of a column that is not declared is       *)
(* empty.                                                                  *)
(***************************************************************************)
C13_NearestColumn ==
    (xpc = "returned" /\ col_map # <<>>) =>
        /\ Len(assigned) = Len(page_rows) - header_idx
        /\ \A r \in 1..Len(assigned) :
            LET row == ProcessedRow(r)
                line == assigned[r]
            IN  /\ line.structured
                /\ Len(line.cols) = Len(row)
                /\ \A k \in 1..Len(row) :
                    LET col == line.cols[k]
                        d == Abs(CentreOf(col_map, col) - Centre(row[k]))
                    IN  /\ col \in Declared(col_map)
                        /\ \A i \in 1..Len(col_map) : Distance(col_map, i, Centre(row[k])) >= d
                        /\ \A i \in 1..Len(col_map) :
                              i < PlaceOf(col_map, col)
                                  => Distance(col_map, i, Centre(row[k])) > d
                /\ Len(line.cells) = Len(ColumnOrder)
                /\ \A c \in 1..Len(ColumnOrder) :
                    /\ line.cells[c] =
                          [n \in 1..Len(InCell(line, ColumnOrder[c])) |->
                              row[CHOOSE k \in 1..Len(row) :
                                    /\ line.cols[k] = ColumnOrder[c]
                                    /\ Cardinality({m \in 1..k : line.cols[m] = ColumnOrder[c]}) = n].text]
                    /\ ColumnOrder[c] \notin Declared(col_map) => line.cells[c] = <<>>

\* a page whose header row declares two columns and holds a word equally
\* far from both, below a row that is not processed
C13_Witness ==
    /\ xpc = "returned"
    /\ Len(col_map) >= 2
    /\ \E r \in 1..Len(assigned) :
          \E k \in 1..Len(ProcessedRow(r)) : Equidistant(ProcessedRow(r)[k], col_map)

====
